---- MODULE Spec2Model ----
(***************************************************************************)
(* Model of src/src/App.tsx (JedBonize twibbon editor): the photo          *)
(* transform state and its gesture handlers, the upload path, and the      *)
(* export path (handleDownload) with its two chained image decodes and     *)
(* the preview-to-canvas coordinate mapping.                               *)
(*                                                                         *)
(* JavaScript numbers are IEEE-754 doubles.  The mapping and the zoom are  *)
(* computed here with the same arithmetic: a double is a 53-bit mantissa   *)
(* (kept as a little-endian sequence of 15-bit limbs, since TLC integers   *)
(* are 32 bits wide) times a power of two, every operation rounding to     *)
(* nearest, ties to even.  Subnormals, overflow and the sign of zero are   *)
(* not modelled: no value of the model comes near them.                    *)
(***************************************************************************)
EXTENDS Integers, Sequences, FiniteSets, TLC

----------------------------------------------------------------------------
(* Natural numbers of arbitrary size: little-endian limbs, no high zero.   *)

Base == 32768
LimbBits == 15

RECURSIVE Pow2(_)
Pow2(k) == IF k = 0 THEN 1 ELSE 2 * Pow2(k - 1)

RECURSIVE BitLenInt(_)
BitLenInt(n) == IF n = 0 THEN 0 ELSE 1 + BitLenInt(n \div 2)

RECURSIVE BigNorm(_)
BigNorm(a) ==
  IF a = <<>> THEN <<>>
  ELSE IF a[Len(a)] = 0 THEN BigNorm(SubSeq(a, 1, Len(a) - 1))
  ELSE a

RECURSIVE BigOfInt(_)
BigOfInt(n) == IF n = 0 THEN <<>> ELSE <<n % Base>> \o BigOfInt(n \div Base)

RECURSIVE BigAddC(_, _, _)
BigAddC(a, b, c) ==
  IF a = <<>> /\ b = <<>> THEN (IF c = 0 THEN <<>> ELSE <<c>>)
  ELSE LET x == IF a = <<>> THEN 0 ELSE Head(a)
           y == IF b = <<>> THEN 0 ELSE Head(b)
           s == x + y + c
       IN <<s % Base>> \o BigAddC(IF a = <<>> THEN <<>> ELSE Tail(a),
                                  IF b = <<>> THEN <<>> ELSE Tail(b),
                                  s \div Base)

BigAdd(a, b) == BigAddC(a, b, 0)

\* a - b for a >= b
RECURSIVE BigSubB(_, _, _)
BigSubB(a, b, c) ==
  IF a = <<>> THEN <<>>
  ELSE LET y == IF b = <<>> THEN 0 ELSE Head(b)
           d == Head(a) - y - c
       IN <<IF d < 0 THEN d + Base ELSE d>> \o
          BigSubB(Tail(a), IF b = <<>> THEN <<>> ELSE Tail(b),
                  IF d < 0 THEN 1 ELSE 0)

BigSub(a, b) == BigNorm(BigSubB(a, b, 0))

RECURSIVE BigMulSmallC(_, _, _)
BigMulSmallC(a, k, c) ==
  IF a = <<>> THEN (IF c = 0 THEN <<>> ELSE <<c>>)
  ELSE LET p == Head(a) * k + c
       IN <<p % Base>> \o BigMulSmallC(Tail(a), k, p \div Base)

\* a * k for 0 <= k < Base
BigMulSmall(a, k) == BigNorm(BigMulSmallC(a, k, 0))

BigShiftLimb(a) == IF a = <<>> THEN <<>> ELSE <<0>> \o a

RECURSIVE BigMul(_, _)
BigMul(a, b) ==
  IF b = <<>> THEN <<>>
  ELSE BigAdd(BigMulSmall(a, Head(b)), BigShiftLimb(BigMul(a, Tail(b))))

\* -1, 0, 1 as a < b, a = b, a > b
RECURSIVE BigCmpFrom(_, _, _)
BigCmpFrom(a, b, i) ==
  IF i = 0 THEN 0
  ELSE IF a[i] < b[i] THEN -1
  ELSE IF a[i] > b[i] THEN 1
  ELSE BigCmpFrom(a, b, i - 1)

BigCmp(a, b) ==
  IF Len(a) < Len(b) THEN -1
  ELSE IF Len(a) > Len(b) THEN 1
  ELSE BigCmpFrom(a, b, Len(a))

BigBitLen(a) ==
  IF a = <<>> THEN 0 ELSE LimbBits * (Len(a) - 1) + BitLenInt(a[Len(a)])

\* quotient and remainder of a by d, 0 < d < 2^16
RECURSIVE BigDivRem(_, _)
BigDivRem(a, d) ==
  IF a = <<>> THEN [q |-> <<>>, r |-> 0]
  ELSE LET hi  == BigDivRem(Tail(a), d)
           cur == hi.r * Base + Head(a)
       IN [q |-> <<cur \div d>> \o hi.q, r |-> cur % d]

BigDivSmall(a, d) == BigNorm(BigDivRem(a, d).q)

RECURSIVE BigZeroLimbs(_)
BigZeroLimbs(n) == IF n = 0 THEN <<>> ELSE <<0>> \o BigZeroLimbs(n - 1)

\* a * 2^k
BigShl(a, k) ==
  IF a = <<>> THEN <<>>
  ELSE BigZeroLimbs(k \div LimbBits) \o BigMulSmall(a, Pow2(k % LimbBits))

\* floor(a / 2^k)
BigShr(a, k) ==
  LET q == k \div LimbBits
  IN IF q >= Len(a) THEN <<>>
     ELSE BigDivSmall(SubSeq(a, q + 1, Len(a)), Pow2(k % LimbBits))

BigBit(a, i) ==
  LET j == i \div LimbBits + 1
  IN IF j > Len(a) THEN 0 ELSE (a[j] \div Pow2(i % LimbBits)) % 2

BigLowZero(a, k) == BigShl(BigShr(a, k), k) = a

----------------------------------------------------------------------------
(* IEEE-754 doubles.  A finite non-zero double is sgn * man * 2^exp with   *)
(* 2^52 <= man < 2^53, so equal numbers are equal records.                 *)

MantBits == 53

Zero   == [k |-> "fin", sgn |-> 1, man |-> <<>>, exp |-> 0]
NaN    == [k |-> "nan", sgn |-> 1, man |-> <<>>, exp |-> 0]
Inf(s) == [k |-> "inf", sgn |-> s, man |-> <<>>, exp |-> 0]

IsZero(x)   == x.k = "fin" /\ x.man = <<>>
IsFinite(x) == x.k = "fin"

\* round sgn * m * 2^e (plus a non-zero tail below m when sticky) to nearest-even
RoundDouble(s, m, e, sticky) ==
  IF m = <<>> THEN Zero
  ELSE LET n == BigBitLen(m)
       IN IF n <= MantBits
          THEN [k |-> "fin", sgn |-> s, man |-> BigShl(m, MantBits - n),
                exp |-> e - (MantBits - n)]
          ELSE LET d    == n - MantBits
                   q    == BigShr(m, d)
                   half == BigBit(m, d - 1) = 1
                   rest == sticky \/ ~BigLowZero(m, d - 1)
                   up   == half /\ (rest \/ BigBit(q, 0) = 1)
                   q2   == IF up THEN BigAdd(q, <<1>>) ELSE q
               IN IF BigBitLen(q2) > MantBits
                  THEN [k |-> "fin", sgn |-> s, man |-> BigShr(q2, 1), exp |-> e + d + 1]
                  ELSE [k |-> "fin", sgn |-> s, man |-> q2, exp |-> e + d]

\* the double of an integer of the model (|n| < 2^31, exact)
FromInt(n) ==
  IF n < 0 THEN RoundDouble(-1, BigOfInt(-n), 0, FALSE)
  ELSE RoundDouble(1, BigOfInt(n), 0, FALSE)

Neg(x) == IF x.k = "nan" \/ IsZero(x) THEN x ELSE [x EXCEPT !.sgn = -x.sgn]

\* x * y
Mul(x, y) ==
  IF x.k = "nan" \/ y.k = "nan" THEN NaN
  ELSE IF x.k = "inf" \/ y.k = "inf"
       THEN (IF IsZero(x) \/ IsZero(y) THEN NaN ELSE Inf(x.sgn * y.sgn))
  ELSE IF IsZero(x) \/ IsZero(y) THEN Zero
  ELSE RoundDouble(x.sgn * y.sgn, BigMul(x.man, y.man), x.exp + y.exp, FALSE)

DivShift == 30

\* x / d for an integer 0 <= d < 2^16
DivInt(x, d) ==
  IF x.k = "nan" THEN NaN
  ELSE IF d = 0 THEN (IF IsZero(x) THEN NaN ELSE Inf(x.sgn))
  ELSE IF x.k = "inf" THEN x
  ELSE IF IsZero(x) THEN Zero
  ELSE LET qr == BigDivRem(BigShl(x.man, DivShift), d)
       IN RoundDouble(x.sgn, BigNorm(qr.q), x.exp - DivShift, qr.r # 0)

\* x + y
Add(x, y) ==
  IF x.k = "nan" \/ y.k = "nan" THEN NaN
  ELSE IF x.k = "inf"
       THEN (IF y.k = "inf" /\ y.sgn # x.sgn THEN NaN ELSE x)
  ELSE IF y.k = "inf" THEN y
  ELSE IF IsZero(x) THEN y
  ELSE IF IsZero(y) THEN x
  ELSE LET e  == IF x.exp < y.exp THEN x.exp ELSE y.exp
           mx == BigShl(x.man, x.exp - e)
           my == BigShl(y.man, y.exp - e)
           c  == BigCmp(mx, my)
       IN IF x.sgn = y.sgn THEN RoundDouble(x.sgn, BigAdd(mx, my), e, FALSE)
          ELSE IF c = 0 THEN Zero
          ELSE IF c > 0 THEN RoundDouble(x.sgn, BigSub(mx, my), e, FALSE)
          ELSE RoundDouble(y.sgn, BigSub(my, mx), e, FALSE)

\* x < y (false when either is NaN)
Lt(x, y) ==
  IF x.k = "nan" \/ y.k = "nan" THEN FALSE
  ELSE IF x = y THEN FALSE
  ELSE IF x.k = "inf" THEN x.sgn = -1
  ELSE IF y.k = "inf" THEN y.sgn = 1
  ELSE LET d == Add(x, Neg(y)) IN ~IsZero(d) /\ d.sgn = -1

Leq(x, y) == (x = y /\ x.k # "nan") \/ Lt(x, y)

\* Math.min / Math.max: NaN if either argument is NaN
MathMin(x, y) ==
  IF x.k = "nan" \/ y.k = "nan" THEN NaN ELSE IF Lt(y, x) THEN y ELSE x

MathMax(x, y) ==
  IF x.k = "nan" \/ y.k = "nan" THEN NaN ELSE IF Lt(x, y) THEN y ELSE x

\* Math.PI = 0x400921FB54442D18
MathPI == [k |-> "fin", sgn |-> 1, man |-> <<11544, 10376, 2029, 201>>, exp |-> -51]

----------------------------------------------------------------------------
(* Bounds of the model.                                                    *)

\* SpecZoom: long zoom runs
ZoomUploads  == 1     \* file selections
MaxZoomRun   == 52    \* zoom operations after an upload
MaxRunTurns  == 0     \* changes of zoom direction after an upload

\* SpecEdit: gestures and transform controls
EditUploads  == 1     \* file selections
MaxOffset    == 30    \* |x|, |y| of the photo offset
MaxRotation  == 450   \* rotation reached by the rotate button
MaxZoomOps   == 1     \* zoom operations after an upload
MaxZoomTurns == 0     \* changes of zoom direction after an upload

\* SpecExport: exports interleaved with edits
ExportUploads  == 1   \* file selections
MaxExports     == 1   \* export triggers
ExportOffset   == 30  \* |x|, |y| of the photo offset
ExportRotation == 90  \* rotation reached by the rotate button
ExportZoomOps  == 1   \* zoom operations after an upload

\* SpecLoad: repeated uploads interleaved with edits
LoadUploads  == 2     \* file selections
LoadOffset   == 30    \* |x|, |y| of the photo offset
LoadRotation == 90    \* rotation reached by the rotate button
LoadZoomOps  == 1     \* zoom operations after an upload

\* SpecRepeat: repeated exports
RepeatUploads  == 1   \* file selections
RepeatExports  == 2   \* export triggers
RepeatRotation == 90  \* rotation reached by the rotate button

\* SpecLive: exports and their decode events
LiveUploads == 1      \* file selections
LiveExports == 2      \* export triggers

----------------------------------------------------------------------------
(* Environment: files, assets, geometry, pointer positions.                *)

Null == [null |-> TRUE]

\* a falsy frameImage (null or the empty string)
NoFrame == ""

\* files the user can pick, with their declared content type
Files == {"a.png", "b.png", "notes.txt"}
NoFile == "none"
FileType(f) == IF f = "notes.txt" THEN "text/plain" ELSE "image/png"
\* the type check left out
StartsWithImageAny(t) == TRUE

StartsWithImage(t) == t = "image/png"

\* intrinsic pixel sizes of the images an export decodes
NaturalSize(src) ==
  IF src = "/frames/DP.png" THEN [w |-> 1000, h |-> 1000]
  ELSE IF src = "/frames/sample-frame.svg" THEN [w |-> 800, h |-> 600]
  ELSE IF src = "a.png" THEN [w |-> 400, h |-> 300]
  ELSE [w |-> 640, h |-> 640]

\* rendered sizes: container (clientWidth/Height = bounding rect), frame
\* element and photo element (offsetWidth/Height).  Container sizes are even,
\* so rect.width / 2 is an integer.
LayoutA == [cw |-> 300, ch |-> 300, fw |-> 300, fh |-> 300, pw |-> 150, ph |-> 150]
LayoutS == [cw |-> 640, ch |-> 480, fw |-> 240, fh |-> 200, pw |-> 120, ph |-> 90]
Layout0 == [cw |-> 0, ch |-> 0, fw |-> 0, fh |-> 0, pw |-> 0, ph |-> 0]
Layouts == {LayoutA, LayoutS, Layout0}

\* clientX, clientY of pointer events; the container's rect starts at (0,0)
Points == {<<150, 150>>, <<180, 130>>}

\* SpecExport: the files picked, where drags start, the zoom directions used
ExportFiles == {"a.png"}
ExportDownPoints == {<<150, 150>>}
ExportZoomDirs == {"in"}
RectLeft == 0
RectTop  == 0

Abs(n) == IF n < 0 THEN -n ELSE n

----------------------------------------------------------------------------
VARIABLES
  profileImage,        \* Null or [src, x, y, scale, rotation]
  frameImage,          \* the frame's src
  dragState,           \* [isDragging, startX, startY, startImageX, startImageY]
  isDraggingControls,  \* control-panel drag in progress
  layout,              \* current rendered geometry
  readers,             \* FileReaders created by handleImageUpload, each
                       \* marked once a clear has run after its start
  exports,             \* closures created by handleDownload, with the
                       \* mapping each one computed once it has run
  canvas,              \* the hidden export canvas
  downloads,           \* files delivered by link.click()
  toast,               \* last toast shown
  zoomRun,             \* zoom operations since the photo was loaded
  pointerDown,         \* a press that began on the canvas area is still held
  ctxFailures          \* handleDownload calls whose getContext('2d') was null

vars == <<profileImage, frameImage, dragState, isDraggingControls, layout,
          readers, exports, canvas, downloads, toast, zoomRun, pointerDown,
          ctxFailures>>

NoRun == [dir |-> "none", len |-> 0, turns |-> 0]

Identity == [tx |-> Zero, ty |-> Zero, rot |-> Zero]

BlankCanvas == [w |-> 300, h |-> 150, ctm |-> Identity, stack |-> <<>>,
                layers |-> <<>>, log |-> <<>>, url |-> Null, by |-> 0,
                map |-> Null]

Init ==
  /\ profileImage = Null
  /\ frameImage = "/frames/DP.png"
  /\ dragState = [isDragging |-> FALSE, startX |-> 0, startY |-> 0,
                  startImageX |-> 0, startImageY |-> 0]
  /\ isDraggingControls = FALSE
  /\ layout \in Layouts
  /\ readers = <<>>
  /\ exports = <<>>
  /\ canvas = BlankCanvas
  /\ downloads = <<>>
  /\ toast = "none"
  /\ zoomRun = NoRun
  /\ pointerDown = FALSE
  /\ ctxFailures = 0

----------------------------------------------------------------------------
(* Upload.                                                                 *)

\* the input's change event with the selected file (NoFile: dialog cancelled);
\* the only caller passes type = 'profile'
handleImageUpload(file, maxUploads) ==
  /\ file \in Files \cup {NoFile}
  /\ IF file = NoFile
     THEN UNCHANGED vars
     ELSE IF ~StartsWithImage(FileType(file))
     THEN /\ toast' = "error:Please select a valid image file"
          /\ UNCHANGED <<profileImage, frameImage, dragState, isDraggingControls,
                         layout, readers, exports, canvas, downloads, zoomRun,
                 pointerDown, ctxFailures>>
     ELSE /\ Len(readers) < maxUploads
          /\ readers' = Append(readers, [src |-> file, done |-> FALSE,
                                              beforeClear |-> FALSE])
          /\ UNCHANGED <<profileImage, frameImage, dragState, isDraggingControls,
                         layout, exports, canvas, downloads, toast, zoomRun,
                 pointerDown, ctxFailures>>

\* reader.onload that replaces the source only when a photo is shown
ReaderOnLoadKeepTransform(i) ==
  /\ i \in DOMAIN readers
  /\ ~readers[i].done
  /\ readers' = [readers EXCEPT ![i].done = TRUE]
  /\ profileImage' = IF profileImage = Null
                     THEN [src |-> readers[i].src, x |-> 0, y |-> 0,
                           scale |-> FromInt(1), rotation |-> 0]
                     ELSE [profileImage EXCEPT !.src = readers[i].src]
  /\ toast' = "success:Profile image uploaded successfully!"
  /\ zoomRun' = NoRun
  /\ UNCHANGED <<frameImage, dragState, isDraggingControls, layout, exports,
                 canvas, downloads,
                 pointerDown, ctxFailures>>

\* reader.onload of the i-th FileReader
ReaderOnLoad(i) ==
  /\ i \in DOMAIN readers
  /\ ~readers[i].done
  /\ readers' = [readers EXCEPT ![i].done = TRUE]
  /\ profileImage' = [src |-> readers[i].src, x |-> 0, y |-> 0,
                      scale |-> FromInt(1), rotation |-> 0]
  /\ toast' = "success:Profile image uploaded successfully!"
  /\ zoomRun' = NoRun
  /\ UNCHANGED <<frameImage, dragState, isDraggingControls, layout, exports,
                 canvas, downloads,
                 pointerDown, ctxFailures>>

----------------------------------------------------------------------------
(* Gestures.  Mouse and touch handlers have the same bodies (the touch     *)
(* ones read e.touches[0]); one action stands for both devices.            *)

getCanvasPosition(clientX, clientY) ==
  [x |-> clientX - RectLeft - layout.cw \div 2,
   y |-> clientY - RectTop - layout.ch \div 2]

\* dragState after handleMouseDown / handleTouchStart at point p
MouseDownState(p) ==
  IF profileImage = Null THEN dragState
  ELSE LET pos == getCanvasPosition(p[1], p[2])
       IN [isDragging |-> TRUE, startX |-> pos.x, startY |-> pos.y,
           startImageX |-> profileImage.x, startImageY |-> profileImage.y]

\* pointer-down on the canvas area, outside the control panel's handle
handleMouseDown(p) ==
  /\ p \in Points
  /\ ~pointerDown
  /\ pointerDown' = TRUE
  /\ dragState' = MouseDownState(p)
  /\ UNCHANGED <<profileImage, frameImage, isDraggingControls, layout, readers,
                 exports, canvas, downloads, toast, zoomRun,
                 ctxFailures>>

\* pointer-down on the control panel's drag handle: its own handler runs,
\* then the event bubbles to the canvas area that contains the panel
beginControlsDrag(p) ==
  /\ p \in Points
  /\ profileImage # Null            \* the panel is rendered with a photo only
  /\ ~pointerDown
  /\ pointerDown' = TRUE
  /\ isDraggingControls' = TRUE
  /\ dragState' = MouseDownState(p)
  /\ UNCHANGED <<profileImage, frameImage, layout, readers, exports, canvas,
                 downloads, toast, zoomRun,
                 ctxFailures>>

\* the move handler without its isDragging check
MouseMoveImageAlways(p) ==
  IF profileImage = Null THEN profileImage
  ELSE LET pos    == getCanvasPosition(p[1], p[2])
           deltaX == pos.x - dragState.startX
           deltaY == pos.y - dragState.startY
       IN [profileImage EXCEPT !.x = dragState.startImageX + deltaX,
                               !.y = dragState.startImageY + deltaY]

\* profileImage after handleMouseMove / handleTouchMove at point p
MouseMoveImage(p) ==
  IF ~dragState.isDragging \/ profileImage = Null THEN profileImage
  ELSE LET pos    == getCanvasPosition(p[1], p[2])
           deltaX == pos.x - dragState.startX
           deltaY == pos.y - dragState.startY
       IN [profileImage EXCEPT !.x = dragState.startImageX + deltaX,
                               !.y = dragState.startImageY + deltaY]

\* pointer move over the canvas area (the document listener of a control
\* drag only restyles the panel); maxOffset bounds the offsets explored
handleMouseMove(p, maxOffset) ==
  /\ p \in Points
  /\ profileImage' = MouseMoveImage(p)
  /\ profileImage' # Null =>
        Abs(profileImage'.x) <= maxOffset /\ Abs(profileImage'.y) <= maxOffset
  /\ UNCHANGED <<frameImage, dragState, isDraggingControls, layout, readers,
                 exports, canvas, downloads, toast, zoomRun,
                 pointerDown, ctxFailures>>

\* dragState after handleMouseUp / handleTouchEnd / the global listeners
MouseUpState == [dragState EXCEPT !.isDragging = FALSE]

\* pointer release anywhere: canvas handler, global listener and, during a
\* control drag, endControlsDrag
handleMouseUp ==
  /\ pointerDown
  /\ pointerDown' = FALSE
  /\ dragState' = MouseUpState
  /\ isDraggingControls' = FALSE
  /\ UNCHANGED <<profileImage, frameImage, layout, readers, exports, canvas,
                 downloads, toast, zoomRun,
                 ctxFailures>>

\* the pointer leaves the canvas area: onMouseLeave={handleMouseUp}
handleMouseLeave ==
  /\ dragState' = MouseUpState
  /\ UNCHANGED <<profileImage, frameImage, isDraggingControls, layout, readers,
                 exports, canvas, downloads, toast, zoomRun,
                 pointerDown, ctxFailures>>

----------------------------------------------------------------------------
(* Transform controls (rendered in the panel, so with a photo only).       *)

\* the rotation that also recentres the photo
RotatedImageRecentred(prev) ==
  [prev EXCEPT !.rotation = prev.rotation + 90, !.x = 0, !.y = 0]

RotatedImage(prev) == [prev EXCEPT !.rotation = prev.rotation + 90]

\* the rotate button; maxRotation bounds the rotations explored
handleRotate(maxRotation) ==
  /\ profileImage # Null
  /\ profileImage.rotation + 90 <= maxRotation
  /\ profileImage' = RotatedImage(profileImage)
  /\ toast' = "success:Image rotated!"
  /\ UNCHANGED <<frameImage, dragState, isDraggingControls, layout, readers,
                 exports, canvas, downloads, zoomRun,
                 pointerDown, ctxFailures>>

\* positions of the range input (min 0, max 360, step 1) that are explored
SliderValues == {0, 45, 360}

DigitChar(d) ==
  CASE d = 0 -> "0" [] d = 1 -> "1" [] d = 2 -> "2" [] d = 3 -> "3"
    [] d = 4 -> "4" [] d = 5 -> "5" [] d = 6 -> "6" [] d = 7 -> "7"
    [] d = 8 -> "8" [] OTHER -> "9"

\* e.target.value: the decimal digits of the input's position
RECURSIVE DecimalString(_)
DecimalString(n) ==
  IF n < 10 THEN <<DigitChar(n)>>
  ELSE Append(DecimalString(n \div 10), DigitChar(n % 10))

\* the value strings the range input can deliver
SliderStrings == {DecimalString(v) : v \in SliderValues}

DigitValue(c) ==
  CASE c = "0" -> 0 [] c = "1" -> 1 [] c = "2" -> 2 [] c = "3" -> 3
    [] c = "4" -> 4 [] c = "5" -> 5 [] c = "6" -> 6 [] c = "7" -> 7
    [] c = "8" -> 8 [] c = "9" -> 9 [] OTHER -> -1

\* parseInt of a non-negative decimal string: the leading digits
RECURSIVE ParseIntFrom(_, _)
ParseIntFrom(str, acc) ==
  IF str = <<>> \/ DigitValue(Head(str)) < 0 THEN acc
  ELSE ParseIntFrom(Tail(str), 10 * acc + DigitValue(Head(str)))

ParseInt(str) == ParseIntFrom(str, 0)

\* the slider value added to the rotation instead of replacing it
PreciseRotatedImageRelative(prev, rotation) ==
  [prev EXCEPT !.rotation = prev.rotation + rotation]

PreciseRotatedImage(prev, rotation) == [prev EXCEPT !.rotation = rotation]

\* onChange of the slider: handlePreciseRotate(parseInt(e.target.value))
handlePreciseRotate(str) ==
  /\ str \in SliderStrings
  /\ profileImage # Null
  /\ profileImage' = PreciseRotatedImage(profileImage, ParseInt(str))
  /\ UNCHANGED <<frameImage, dragState, isDraggingControls, layout, readers,
                 exports, canvas, downloads, toast, zoomRun,
                 pointerDown, ctxFailures>>

ZoomFactor(direction) ==
  IF direction = "in" THEN DivInt(FromInt(11), 10) ELSE DivInt(FromInt(9), 10)

MinScale == DivInt(FromInt(1), 10)

\* a slip of the upper clamp bound
MaxScaleTypo == FromInt(30)

MaxScale == FromInt(3)

\* the zoom without its upper clamp
ZoomedScaleNoMin(scale, direction) ==
  MathMax(MinScale, Mul(scale, ZoomFactor(direction)))

ZoomedScale(scale, direction) ==
  MathMax(MinScale, MathMin(MaxScale, Mul(scale, ZoomFactor(direction))))

\* the zoom buttons; maxRun and maxTurns bound the zoom history explored
handleZoom(direction, maxRun, maxTurns) ==
  /\ direction \in {"in", "out"}
  /\ profileImage # Null
  /\ zoomRun.len < maxRun
  /\ zoomRun.dir \in {"none", direction} \/ zoomRun.turns < maxTurns
  /\ profileImage' =
       [profileImage EXCEPT !.scale = ZoomedScale(profileImage.scale, direction)]
  /\ zoomRun' = [dir |-> direction, len |-> zoomRun.len + 1,
                 turns |-> IF zoomRun.dir \in {"none", direction}
                           THEN zoomRun.turns ELSE zoomRun.turns + 1]
  /\ toast' = IF direction = "in" THEN "success:Image zoomed in!"
                                  ELSE "success:Image zoomed out!"
  /\ UNCHANGED <<frameImage, dragState, isDraggingControls, layout, readers,
                 exports, canvas, downloads,
                 pointerDown, ctxFailures>>

\* beforeClear notes, for each FileReader that exists, that a clear has run
\* since it was started; the code keeps no such mark
clearAll ==
  /\ profileImage' = Null
  /\ frameImage' = "/frames/sample-frame.svg"
  /\ toast' = "success:All images cleared!"
  /\ zoomRun' = NoRun
  /\ readers' = [i \in DOMAIN readers |-> [readers[i] EXCEPT !.beforeClear = TRUE]]
  /\ UNCHANGED <<dragState, isDraggingControls, layout, exports,
                 canvas, downloads,
                 pointerDown, ctxFailures>>

\* window resize / orientation change: the rendered geometry changes
Resize(l) ==
  /\ l \in Layouts \ {layout}
  /\ layout' = l
  /\ UNCHANGED <<profileImage, frameImage, dragState, isDraggingControls,
                 readers, exports, canvas, downloads, toast, zoomRun,
                 pointerDown, ctxFailures>>

----------------------------------------------------------------------------
(* The 2D context of the export canvas.                                    *)

Op(name, args) == [op |-> name, args |-> args]

AllFinite(args) == \A j \in DOMAIN args : IsFinite(args[j])

\* one call on the canvas or its context.  Non-finite arguments make
\* translate, rotate and drawImage return without effect; setting a
\* dimension resets the context and clears the bitmap.
RunOp(c, o) ==
  LET logged == [c EXCEPT !.log = Append(c.log, o.op)]
  IN CASE o.op = "width" ->
            [logged EXCEPT !.w = o.args[1], !.ctm = Identity, !.stack = <<>>,
                           !.layers = <<>>]
       [] o.op = "height" ->
            [logged EXCEPT !.h = o.args[1], !.ctm = Identity, !.stack = <<>>,
                           !.layers = <<>>]
       [] o.op = "clearRect" ->
            [logged EXCEPT !.layers = <<>>]
       [] o.op = "save" ->
            [logged EXCEPT !.stack = Append(c.stack, c.ctm)]
       [] o.op = "restore" ->
            IF c.stack = <<>> THEN logged
            ELSE [logged EXCEPT !.ctm = c.stack[Len(c.stack)],
                                !.stack = SubSeq(c.stack, 1, Len(c.stack) - 1)]
       [] o.op = "translate" ->
            IF AllFinite(o.args)
            THEN [logged EXCEPT !.ctm.tx = Add(c.ctm.tx, o.args[1]),
                                !.ctm.ty = Add(c.ctm.ty, o.args[2])]
            ELSE logged
       [] o.op = "rotate" ->
            IF AllFinite(o.args)
            THEN [logged EXCEPT !.ctm.rot = Add(c.ctm.rot, o.args[1])]
            ELSE logged
       [] o.op \in {"drawImage:photo", "drawImage:frame"} ->
            IF AllFinite(o.args) /\ ~IsZero(o.args[3]) /\ ~IsZero(o.args[4])
            THEN [logged EXCEPT !.layers =
                    Append(c.layers, [img |-> o.op, ctm |-> c.ctm, rect |-> o.args])]
            ELSE logged
       [] o.op = "toDataURL" ->
            [logged EXCEPT !.url = [type |-> "image/png", w |-> c.w, h |-> c.h,
                                    layers |-> c.layers]]
       [] OTHER -> logged

RECURSIVE RunCanvas(_, _)
RunCanvas(c, ops) ==
  IF ops = <<>> THEN c ELSE RunCanvas(RunOp(c, Head(ops)), Tail(ops))

----------------------------------------------------------------------------
(* Export.                                                                 *)

\* a || b on numbers: b when a is 0
OrElse(a, b) == IF a = 0 THEN b ELSE a

\* the mapping without the half frame size in the anchor
MapToOutputNoCentre(photo, displayedFrameWidth, displayedFrameHeight, frameNat, baseW, baseH) ==
  LET scaleX == DivInt(FromInt(frameNat.w), displayedFrameWidth)
      scaleY == DivInt(FromInt(frameNat.h), displayedFrameHeight)
  IN [scaleX     |-> scaleX,
      scaleY     |-> scaleY,
      actualX    |-> Mul(FromInt(photo.x), scaleX),
      actualY    |-> Mul(FromInt(photo.y), scaleY),
      destWidth  |-> Mul(Mul(FromInt(baseW), photo.scale), MathMin(scaleX, scaleY)),
      destHeight |-> Mul(Mul(FromInt(baseH), photo.scale), MathMin(scaleX, scaleY)),
      radians    |-> DivInt(Mul(FromInt(photo.rotation), MathPI), 180)]

\* the mapping with the two axis ratios exchanged in the anchor
MapToOutputSwappedAxes(photo, displayedFrameWidth, displayedFrameHeight, frameNat, baseW, baseH) ==
  LET scaleX == DivInt(FromInt(frameNat.w), displayedFrameWidth)
      scaleY == DivInt(FromInt(frameNat.h), displayedFrameHeight)
  IN [scaleX     |-> scaleX,
      scaleY     |-> scaleY,
      actualX    |-> Mul(Add(DivInt(FromInt(displayedFrameWidth), 2), FromInt(photo.x)), scaleY),
      actualY    |-> Mul(Add(DivInt(FromInt(displayedFrameHeight), 2), FromInt(photo.y)), scaleX),
      destWidth  |-> Mul(Mul(FromInt(baseW), photo.scale), MathMin(scaleX, scaleY)),
      destHeight |-> Mul(Mul(FromInt(baseH), photo.scale), MathMin(scaleX, scaleY)),
      radians    |-> DivInt(Mul(FromInt(photo.rotation), MathPI), 180)]

\* the drawing parameters computed in frameImg.onload
MapToOutput(photo, displayedFrameWidth, displayedFrameHeight, frameNat, baseW, baseH) ==
  LET scaleX == DivInt(FromInt(frameNat.w), displayedFrameWidth)
      scaleY == DivInt(FromInt(frameNat.h), displayedFrameHeight)
  IN [scaleX     |-> scaleX,
      scaleY     |-> scaleY,
      actualX    |-> Mul(Add(DivInt(FromInt(displayedFrameWidth), 2), FromInt(photo.x)), scaleX),
      actualY    |-> Mul(Add(DivInt(FromInt(displayedFrameHeight), 2), FromInt(photo.y)), scaleY),
      destWidth  |-> Mul(Mul(FromInt(baseW), photo.scale), MathMin(scaleX, scaleY)),
      destHeight |-> Mul(Mul(FromInt(baseH), photo.scale), MathMin(scaleX, scaleY)),
      radians    |-> DivInt(Mul(FromInt(photo.rotation), MathPI), 180)]

\* the calls with the frame drawn before the photo
ExportOpsFrameFirst(frameNat, d) ==
  << Op("width", <<frameNat.w>>),
     Op("height", <<frameNat.h>>),
     Op("clearRect", <<Zero, Zero, FromInt(frameNat.w), FromInt(frameNat.h)>>),
     Op("drawImage:frame", <<Zero, Zero, FromInt(frameNat.w), FromInt(frameNat.h)>>),
     Op("save", <<>>),
     Op("translate", <<d.actualX, d.actualY>>),
     Op("rotate", <<d.radians>>),
     Op("drawImage:photo", <<DivInt(Neg(d.destWidth), 2), DivInt(Neg(d.destHeight), 2),
                             d.destWidth, d.destHeight>>),
     Op("restore", <<>>),
     Op("toDataURL", <<>>) >>

\* the calls on a context that is neither reset by a resize nor saved and
\* restored around the photo
ExportOpsAccumulating(frameNat, d) ==
  << Op("clearRect", <<Zero, Zero, FromInt(frameNat.w), FromInt(frameNat.h)>>),
     Op("translate", <<d.actualX, d.actualY>>),
     Op("rotate", <<d.radians>>),
     Op("drawImage:photo", <<DivInt(Neg(d.destWidth), 2), DivInt(Neg(d.destHeight), 2),
                             d.destWidth, d.destHeight>>),
     Op("drawImage:frame", <<Zero, Zero, FromInt(frameNat.w), FromInt(frameNat.h)>>),
     Op("toDataURL", <<>>) >>

\* the calls without the assignments of canvas.width and canvas.height
ExportOpsNoResize(frameNat, d) ==
  << Op("clearRect", <<Zero, Zero, FromInt(frameNat.w), FromInt(frameNat.h)>>),
     Op("save", <<>>),
     Op("translate", <<d.actualX, d.actualY>>),
     Op("rotate", <<d.radians>>),
     Op("drawImage:photo", <<DivInt(Neg(d.destWidth), 2), DivInt(Neg(d.destHeight), 2),
                             d.destWidth, d.destHeight>>),
     Op("restore", <<>>),
     Op("drawImage:frame", <<Zero, Zero, FromInt(frameNat.w), FromInt(frameNat.h)>>),
     Op("toDataURL", <<>>) >>

\* the calls frameImg.onload makes on the canvas, in program order
ExportOps(frameNat, d) ==
  << Op("width", <<frameNat.w>>),
     Op("height", <<frameNat.h>>),
     Op("clearRect", <<Zero, Zero, FromInt(frameNat.w), FromInt(frameNat.h)>>),
     Op("save", <<>>),
     Op("translate", <<d.actualX, d.actualY>>),
     Op("rotate", <<d.radians>>),
     Op("drawImage:photo", <<DivInt(Neg(d.destWidth), 2), DivInt(Neg(d.destHeight), 2),
                             d.destWidth, d.destHeight>>),
     Op("restore", <<>>),
     Op("drawImage:frame", <<Zero, Zero, FromInt(frameNat.w), FromInt(frameNat.h)>>),
     Op("toDataURL", <<>>) >>

\* the button without its disabled attribute
DownloadNeverDisabled == FALSE

\* the download button is disabled without a photo or a frame
DownloadDisabled == profileImage = Null \/ frameImage = NoFrame

\* click on "Download HD"; ctxOk: whether getContext('2d') returns a context.
\* The job holds what the closure captured; triggerBase is the photo's base
\* size in the state of the click, which the code does not read at that point
handleDownload(ctxOk, maxExports) ==
  /\ ctxOk \in BOOLEAN
  /\ ~DownloadDisabled
  /\ IF profileImage = Null \/ frameImage = NoFrame
     THEN /\ toast' = "error:Please upload both profile image and frame first!"
          /\ UNCHANGED <<exports, ctxFailures>>
     ELSE IF ~ctxOk
     THEN /\ ctxFailures < maxExports
          /\ ctxFailures' = ctxFailures + 1
          /\ UNCHANGED <<exports, toast>>
     ELSE /\ Len(exports) < maxExports
          /\ exports' = Append(exports,
               [photo |-> profileImage,
                frame |-> frameImage,
                displayedFrameWidth  |-> OrElse(layout.fw, layout.cw),
                displayedFrameHeight |-> OrElse(layout.fh, layout.ch),
                profileImg |-> "loading",
                frameImg   |-> "empty",
                triggerBase |-> [w |-> OrElse(layout.pw, NaturalSize(profileImage.src).w),
                                 h |-> OrElse(layout.ph, NaturalSize(profileImage.src).h)],
                map        |-> Null])
          /\ UNCHANGED <<toast, ctxFailures>>
  /\ UNCHANGED <<profileImage, frameImage, dragState, isDraggingControls,
                 layout, readers, canvas, downloads, zoomRun,
                 pointerDown>>

\* profileImg.onload that also recentres the photo shown in the preview
ProfileImgOnLoadRecentring(i) ==
  /\ i \in DOMAIN exports
  /\ exports[i].profileImg = "loading"
  /\ exports' = [exports EXCEPT ![i].profileImg = "complete",
                                ![i].frameImg = "loading"]
  /\ profileImage' = IF profileImage = Null THEN Null
                     ELSE [profileImage EXCEPT !.x = 0, !.y = 0]
  /\ UNCHANGED <<frameImage, dragState, isDraggingControls,
                 layout, readers, canvas, downloads, toast, zoomRun,
                 pointerDown, ctxFailures>>

\* profileImg.onload of the i-th export: chains the frame's decode
ProfileImgOnLoad(i) ==
  /\ i \in DOMAIN exports
  /\ exports[i].profileImg = "loading"
  /\ exports' = [exports EXCEPT ![i].profileImg = "complete",
                                ![i].frameImg = "loading"]
  /\ UNCHANGED <<profileImage, frameImage, dragState, isDraggingControls,
                 layout, readers, canvas, downloads, toast, zoomRun,
                 pointerDown, ctxFailures>>

\* a decode of the i-th export fails; neither image has an onerror handler
ImgOnError(i) ==
  /\ i \in DOMAIN exports
  /\ \/ /\ exports[i].profileImg = "loading"
        /\ exports' = [exports EXCEPT ![i].profileImg = "broken"]
     \/ /\ exports[i].frameImg = "loading"
        /\ exports' = [exports EXCEPT ![i].frameImg = "broken"]
  /\ UNCHANGED <<profileImage, frameImage, dragState, isDraggingControls,
                 layout, readers, canvas, downloads, toast, zoomRun,
                 pointerDown, ctxFailures>>

\* profileImgElementRef.current?.offsetWidth || profileImg.width (and Height):
\* the photo element exists while a photo is shown
BaseDisplayedProfile(e) ==
  LET photoNat == NaturalSize(e.photo.src)
  IN IF profileImage = Null THEN photoNat
     ELSE [w |-> OrElse(layout.pw, photoNat.w), h |-> OrElse(layout.ph, photoNat.h)]

\* the canvas after the body of frameImg.onload of export job e; map records
\* the values the mapping read and the drawing parameters it computed
Composite(c, e) ==
  LET frameNat == NaturalSize(e.frame)
      base == BaseDisplayedProfile(e)
      d == MapToOutput(e.photo, e.displayedFrameWidth, e.displayedFrameHeight,
                       frameNat, base.w, base.h)
  IN [RunCanvas(c, ExportOps(frameNat, d)) EXCEPT
        !.map = [photo |-> e.photo,
                 displayedFrameWidth |-> e.displayedFrameWidth,
                 displayedFrameHeight |-> e.displayedFrameHeight,
                 frameNat |-> frameNat, base |-> base, out |-> d]]

\* frameImg.onload when the frame's decode is started beside the photo's
\* instead of inside profileImg.onload
FrameImgOnLoadUnchained(i) ==
  /\ i \in DOMAIN exports
  /\ exports[i].frameImg \in {"empty", "loading"}
  /\ canvas' = Composite([canvas EXCEPT !.log = <<>>, !.by = i], exports[i])
  /\ exports' = [exports EXCEPT ![i].frameImg = "complete",
                                ![i].map = canvas'.map]
  /\ downloads' = Append(downloads,
       [download |-> "twibbon-image.png", href |-> canvas'.url, by |-> i])
  /\ toast' = "success:Image downloaded successfully!"
  /\ UNCHANGED <<profileImage, frameImage, dragState, isDraggingControls,
                 layout, readers, zoomRun,
                 pointerDown, ctxFailures>>

\* frameImg.onload of the i-th export: draw, encode, download
FrameImgOnLoad(i) ==
  /\ i \in DOMAIN exports
  /\ exports[i].frameImg = "loading"
  /\ canvas' = Composite([canvas EXCEPT !.log = <<>>, !.by = i], exports[i])
  /\ exports' = [exports EXCEPT ![i].frameImg = "complete",
                                ![i].map = canvas'.map]
  /\ downloads' = Append(downloads,
       [download |-> "twibbon-image.png", href |-> canvas'.url, by |-> i])
  /\ toast' = "success:Image downloaded successfully!"
  /\ UNCHANGED <<profileImage, frameImage, dragState, isDraggingControls,
                 layout, readers, zoomRun,
                 pointerDown, ctxFailures>>

----------------------------------------------------------------------------
\* zoom runs
NextZoom ==
  \/ \E f \in Files \cup {NoFile} : handleImageUpload(f, ZoomUploads)
  \/ \E i \in 1..ZoomUploads : ReaderOnLoad(i)
  \/ \E d \in {"in", "out"} : handleZoom(d, MaxZoomRun, MaxRunTurns)
  \/ clearAll

SpecZoom == Init /\ [][NextZoom]_vars

\* gestures and transform controls
NextEdit ==
  \/ \E f \in Files \cup {NoFile} : handleImageUpload(f, EditUploads)
  \/ \E i \in 1..EditUploads : ReaderOnLoad(i)
  \/ \E p \in Points : handleMouseDown(p)
  \/ \E p \in Points : beginControlsDrag(p)
  \/ \E p \in Points : handleMouseMove(p, MaxOffset)
  \/ handleMouseUp
  \/ handleMouseLeave
  \/ handleRotate(MaxRotation)
  \/ \E str \in SliderStrings : handlePreciseRotate(str)
  \/ \E d \in {"in", "out"} : handleZoom(d, MaxZoomOps, MaxZoomTurns)
  \/ clearAll

SpecEdit == Init /\ [][NextEdit]_vars

\* exports interleaved with edits
NextExport ==
  \/ \E f \in ExportFiles : handleImageUpload(f, ExportUploads)
  \/ \E i \in 1..ExportUploads : ReaderOnLoad(i)
  \/ \E p \in ExportDownPoints : handleMouseDown(p)
  \/ \E p \in Points : handleMouseMove(p, ExportOffset)
  \/ handleMouseUp
  \/ handleRotate(ExportRotation)
  \/ \E d \in ExportZoomDirs : handleZoom(d, ExportZoomOps, 0)
  \/ clearAll
  \/ \E l \in Layouts : Resize(l)
  \/ \E ok \in BOOLEAN : handleDownload(ok, MaxExports)
  \/ \E i \in 1..MaxExports : ProfileImgOnLoad(i)
  \/ \E i \in 1..MaxExports : ImgOnError(i)
  \/ \E i \in 1..MaxExports : FrameImgOnLoad(i)

SpecExport == Init /\ [][NextExport]_vars

\* repeated uploads interleaved with edits and clear
NextLoad ==
  \/ \E f \in Files : handleImageUpload(f, LoadUploads)
  \/ \E i \in 1..LoadUploads : ReaderOnLoad(i)
  \/ \E p \in ExportDownPoints : handleMouseDown(p)
  \/ \E p \in Points : handleMouseMove(p, LoadOffset)
  \/ handleMouseUp
  \/ handleRotate(LoadRotation)
  \/ \E d \in ExportZoomDirs : handleZoom(d, LoadZoomOps, 0)
  \/ clearAll

SpecLoad == Init /\ [][NextLoad]_vars

\* repeated exports of one photo
NextRepeat ==
  \/ \E f \in ExportFiles : handleImageUpload(f, RepeatUploads)
  \/ \E i \in 1..RepeatUploads : ReaderOnLoad(i)
  \/ handleRotate(RepeatRotation)
  \/ clearAll
  \/ \E l \in Layouts : Resize(l)
  \/ \E ok \in BOOLEAN : handleDownload(ok, RepeatExports)
  \/ \E i \in 1..RepeatExports : ProfileImgOnLoad(i)
  \/ \E i \in 1..RepeatExports : ImgOnError(i)
  \/ \E i \in 1..RepeatExports : FrameImgOnLoad(i)

SpecRepeat == Init /\ [][NextRepeat]_vars

\* exports and their decode events
NextLive ==
  \/ \E f \in ExportFiles : handleImageUpload(f, LiveUploads)
  \/ \E i \in 1..LiveUploads : ReaderOnLoad(i)
  \/ clearAll
  \/ \E ok \in BOOLEAN : handleDownload(ok, LiveExports)
  \/ \E i \in 1..LiveExports : ProfileImgOnLoad(i)
  \/ \E i \in 1..LiveExports : ImgOnError(i)
  \/ \E i \in 1..LiveExports : FrameImgOnLoad(i)

\* every decode that was started completes or fails
SpecLive ==
  /\ Init /\ [][NextLive]_vars
  /\ \A i \in 1..LiveExports :
       WF_vars(ProfileImgOnLoad(i) \/ ImgOnError(i) \/ FrameImgOnLoad(i))

----------------------------------------------------------------------------
(* Zoom.                                                                   *)

\* C1: whenever a photo is loaded, 0.1 <= scale <= 3.0
C1_ScaleWithinBounds ==
  profileImage # Null =>
    /\ Leq(DivInt(FromInt(1), 10), profileImage.scale)
    /\ Leq(profileImage.scale, FromInt(3))

\* a run of zoom-outs has reached the lower bound and zoomed out once more
C1_Witness ==
  /\ profileImage # Null
  /\ zoomRun = [dir |-> "out", len |-> 23, turns |-> 0]
  /\ profileImage.scale = DivInt(FromInt(1), 10)

ZoomInStep ==
  /\ profileImage # Null /\ profileImage' # Null
  /\ zoomRun'.dir = "in" /\ zoomRun'.len = zoomRun.len + 1

ZoomOutStep ==
  /\ profileImage # Null /\ profileImage' # Null
  /\ zoomRun'.dir = "out" /\ zoomRun'.len = zoomRun.len + 1

\* C10: 50 consecutive zoom-ins from scale 1 end at exactly 3.0; at 3.0 a
\* zoom-in leaves the scale at 3.0; a zoom-out never goes below 0.1
C10_ZoomSaturates ==
  /\ [](profileImage # Null /\ zoomRun = [dir |-> "in", len |-> 50, turns |-> 0]
          => profileImage.scale = FromInt(3))
  /\ [][ZoomInStep /\ profileImage.scale = FromInt(3)
          => profileImage'.scale = FromInt(3)]_vars
  /\ [][ZoomOutStep => Leq(DivInt(FromInt(1), 10), profileImage'.scale)]_vars

\* the 50th consecutive zoom-in from scale 1 has been applied
C10_Witness ==
  /\ profileImage # Null
  /\ zoomRun = [dir |-> "in", len |-> 50, turns |-> 0]
  /\ profileImage.scale = FromInt(3)

----------------------------------------------------------------------------
(* Gestures and rotation.                                                  *)

\* C2: the photo drag and the control-panel drag are never both active
C2_DragsExclusive == ~(dragState.isDragging /\ isDraggingControls)

\* C3: with a photo loaded, 0 <= rotation < 360
C3_RotationInDomain ==
  profileImage # Null => 0 <= profileImage.rotation /\ profileImage.rotation < 360

----------------------------------------------------------------------------
(* Export.                                                                 *)

LastLayer(c) == c.layers[Len(c.layers)]

FullSurface(c) == <<Zero, Zero, FromInt(c.w), FromInt(c.h)>>

\* C4: an export calls clear, save, translate, rotate, draw photo, restore,
\* draw frame, encode in this order (after sizing the surface); the frame is
\* the top layer, drawn under the identity transform over the full surface,
\* and it is what the encoded image shows
C4_DrawOrder ==
  canvas.by # 0 =>
    /\ canvas.log = <<"width", "height", "clearRect", "save", "translate", "rotate",
                      "drawImage:photo", "restore", "drawImage:frame", "toDataURL">>
    /\ canvas.layers # <<>>
    /\ LastLayer(canvas).img = "drawImage:frame"
    /\ LastLayer(canvas).ctm = Identity
    /\ LastLayer(canvas).rect = FullSurface(canvas)
    /\ \A j \in 1..(Len(canvas.layers) - 1) : canvas.layers[j].img = "drawImage:photo"
    /\ canvas.url # Null /\ canvas.url.layers = canvas.layers
    /\ \A k \in DOMAIN downloads :
         LET l == downloads[k].href.layers IN l # <<>> /\ l[Len(l)].img = "drawImage:frame"

\* an export has drawn a translated, rotated photo under the frame
C4_Witness ==
  /\ canvas.by # 0
  /\ Len(canvas.layers) = 2
  /\ ~IsZero(canvas.layers[1].ctm.rot)
  /\ ~IsZero(canvas.layers[1].ctm.tx)

DownloadsBy(i) == {k \in DOMAIN downloads : downloads[k].by = i}

C6_NoDrawBeforeDecodes ==
  /\ canvas.by = 0 => canvas = BlankCanvas /\ downloads = <<>>
  /\ canvas.by # 0 =>
       /\ canvas.by \in DOMAIN exports
       /\ exports[canvas.by].profileImg = "complete"
       /\ exports[canvas.by].frameImg = "complete"
  /\ \A k \in DOMAIN downloads :
       /\ exports[downloads[k].by].profileImg = "complete"
       /\ exports[downloads[k].by].frameImg = "complete"
  /\ (\A i \in DOMAIN exports : exports[i].frameImg # "complete") => canvas = BlankCanvas

\* an export has drawn after a clear and a resize came between its trigger
\* and its decode completions
C6_Witness ==
  /\ canvas.by # 0
  /\ profileImage = Null
  /\ OrElse(layout.fw, layout.cw) # exports[canvas.by].displayedFrameWidth

NonDegenerate(m) == m.displayedFrameWidth > 0 /\ m.displayedFrameHeight > 0

\* C7: for non-degenerate geometry the export computes the anchor and the
\* destination size by the stated formulas and draws with them; frame 300x300
\* of natural 1000x1000, base 150x150, scale 1, offset (0,0) give anchor
\* (500,500) and size 500x500, and offsetX = 30 gives anchorX = 600
C7_MappingFormulas ==
  canvas.map # Null /\ NonDegenerate(canvas.map) =>
    LET m  == canvas.map
        fw == m.displayedFrameWidth
        fh == m.displayedFrameHeight
        sx == DivInt(FromInt(m.frameNat.w), fw)
        sy == DivInt(FromInt(m.frameNat.h), fh)
        scenario == /\ fw = 300 /\ fh = 300 /\ m.frameNat = [w |-> 1000, h |-> 1000]
                    /\ m.base = [w |-> 150, h |-> 150] /\ m.photo.scale = FromInt(1)
    IN /\ m.out.actualX = Mul(Add(DivInt(FromInt(fw), 2), FromInt(m.photo.x)), sx)
       /\ m.out.actualY = Mul(Add(DivInt(FromInt(fh), 2), FromInt(m.photo.y)), sy)
       /\ m.out.destWidth  = Mul(Mul(FromInt(m.base.w), m.photo.scale), MathMin(sx, sy))
       /\ m.out.destHeight = Mul(Mul(FromInt(m.base.h), m.photo.scale), MathMin(sx, sy))
       /\ scenario /\ m.photo.x = 0 /\ m.photo.y = 0 =>
            /\ m.out.actualX = FromInt(500) /\ m.out.actualY = FromInt(500)
            /\ m.out.destWidth = FromInt(500) /\ m.out.destHeight = FromInt(500)
       /\ scenario /\ m.photo.x = 30 => m.out.actualX = FromInt(600)
       /\ Len(canvas.layers) = 2
       /\ canvas.layers[1].ctm.tx = m.out.actualX
       /\ canvas.layers[1].ctm.ty = m.out.actualY
       /\ canvas.layers[1].rect[3] = m.out.destWidth
       /\ canvas.layers[1].rect[4] = m.out.destHeight

\* the export of the second scenario has run
C7_Witness ==
  /\ canvas.map # Null
  /\ canvas.map.displayedFrameWidth = 300
  /\ canvas.map.frameNat = [w |-> 1000, h |-> 1000]
  /\ canvas.map.base = [w |-> 150, h |-> 150]
  /\ canvas.map.photo.scale = FromInt(1)
  /\ canvas.map.photo.x = 30
  /\ canvas.map.out.actualX = FromInt(600)

CentreX(m) == DivInt(FromInt(m.frameNat.w), 2)
CentreY(m) == DivInt(FromInt(m.frameNat.h), 2)

\* C8 as stated, for the rendered sizes the mapping is defined on: with
\* offset (0,0) the anchor is exactly the centre of the output surface
C8_ExactCentre ==
  canvas.map # Null /\ NonDegenerate(canvas.map)
    /\ canvas.map.photo.x = 0 /\ canvas.map.photo.y = 0 =>
      /\ canvas.map.out.actualX = CentreX(canvas.map)
      /\ canvas.map.out.actualY = CentreY(canvas.map)

AbsD(x) == IF x.k = "fin" /\ x.sgn = -1 THEN Neg(x) ELSE x

\* the unit in the last place of a finite non-zero double
Ulp(c) == RoundDouble(1, <<1>>, c.exp, FALSE)

WithinUlp(x, c) == IsFinite(x) /\ Leq(AbsD(Add(x, Neg(c))), Ulp(c))

\* C8, amended: with offset (0,0) and a non-zero rendered frame size the
\* anchor is the centre of the output surface up to one unit in the last place
C8_CentreWithinUlp ==
  canvas.map # Null /\ NonDegenerate(canvas.map)
    /\ canvas.map.photo.x = 0 /\ canvas.map.photo.y = 0 =>
      /\ WithinUlp(canvas.map.out.actualX, CentreX(canvas.map))
      /\ WithinUlp(canvas.map.out.actualY, CentreY(canvas.map))

\* an export with offset (0,0) whose anchor is off the centre by rounding
C8_Witness ==
  /\ canvas.map # Null /\ NonDegenerate(canvas.map)
  /\ canvas.map.photo.x = 0 /\ canvas.map.photo.y = 0
  /\ canvas.map.out.actualX # CentreX(canvas.map)
  /\ canvas.map.photo.rotation # 0 /\ canvas.map.photo.scale # FromInt(1)

\* C9: no export runs its mapping on a degenerate geometry: every mapping
\* that was computed had a non-zero rendered frame size and finite results,
\* and no file comes from any other
C9_DegenerateLayoutFails ==
  canvas.map # Null =>
    /\ NonDegenerate(canvas.map)
    /\ AllFinite(<<canvas.map.out.scaleX, canvas.map.out.scaleY,
                   canvas.map.out.actualX, canvas.map.out.actualY,
                   canvas.map.out.destWidth, canvas.map.out.destHeight>>)

----------------------------------------------------------------------------
(* Frame, slider, output file.                                             *)

\* C11: the frame used by the preview and by every export is the one the
\* session started with
C11_FrameImmutable ==
  /\ frameImage = "/frames/DP.png"
  /\ \A i \in DOMAIN exports : exports[i].frame = "/frames/DP.png"

\* C12: a slider input at position v leaves rotation = v, whatever the
\* rotation was, and changes no other field of the photo
C12_SliderRoundTrip ==
  [][\A v \in SliderValues :
       handlePreciseRotate(DecimalString(v)) =>
         /\ profileImage'.rotation = v
         /\ profileImage'.src = profileImage.src
         /\ profileImage'.x = profileImage.x
         /\ profileImage'.y = profileImage.y
         /\ profileImage'.scale = profileImage.scale]_vars

\* the slider was set to 45 after the rotate button had been used, on a photo
\* that had been moved
C12_Witness ==
  /\ profileImage # Null
  /\ profileImage.rotation = 45
  /\ toast = "success:Image rotated!"
  /\ profileImage.x # 0

\* C13: every delivered file is a PNG named twibbon-image.png whose
\* resolution is the natural size of the frame its export drew, with the
\* frame as the last layer over the whole surface; the surface was sized
\* before anything was drawn, and no export delivers two files
C13_OutputSizedToFrame ==
  /\ \A k \in DOMAIN downloads :
       LET e == exports[downloads[k].by]
           nat == NaturalSize(e.frame)
           f == downloads[k].href
       IN /\ downloads[k].download = "twibbon-image.png"
          /\ f.type = "image/png"
          /\ f.w = nat.w /\ f.h = nat.h
          /\ f.layers # <<>>
          /\ f.layers[Len(f.layers)] =
               [img |-> "drawImage:frame", ctm |-> Identity,
                rect |-> <<Zero, Zero, FromInt(nat.w), FromInt(nat.h)>>]
          /\ Cardinality(DownloadsBy(downloads[k].by)) = 1
  /\ canvas.log # <<>> =>
       /\ SubSeq(canvas.log, 1, 3) = <<"width", "height", "clearRect">>
       /\ \A j \in 4..Len(canvas.log) : canvas.log[j] \notin {"width", "height"}

\* a file delivered for the 800x600 frame from a preview whose frame was
\* rendered 240x200
C13_Witness ==
  /\ downloads # <<>>
  /\ downloads[1].href.w = 800 /\ downloads[1].href.h = 600
  /\ exports[downloads[1].by].displayedFrameWidth = 240
  /\ exports[downloads[1].by].displayedFrameHeight = 200

----------------------------------------------------------------------------
(* Upload and clear.                                                       *)

\* C14: choosing a file whose type is not image/* shows the error toast and
\* changes nothing else; the error toast never appears with another change,
\* and no FileReader is ever started on such a file
C14_InvalidUploadRejected ==
  /\ [][\A f \in Files :
          FileType(f) = "text/plain" /\ handleImageUpload(f, EditUploads) =>
            toast' = "error:Please select a valid image file"]_vars
  /\ [][toast' = "error:Please select a valid image file" /\ toast' # toast =>
          UNCHANGED <<profileImage, frameImage, dragState, isDraggingControls,
                      layout, readers, exports, canvas, downloads, zoomRun,
                      pointerDown, ctxFailures>>]_vars
  /\ [](\A i \in DOMAIN readers : FileType(readers[i].src) = "image/png")

\* a rejected upload while a moved and rotated photo is being dragged
C14_Witness ==
  /\ toast = "error:Please select a valid image file"
  /\ profileImage # Null
  /\ profileImage.x # 0 /\ profileImage.rotation # 0
  /\ dragState.isDragging

----------------------------------------------------------------------------
(* Export and the transform.                                               *)

\* C15: a step that starts an export, fails to get a context, runs a decode
\* callback, draws or downloads, or shows the export's error toast, leaves
\* the photo and its transform as they were
C15_ExportKeepsTransform ==
  [][(\/ exports' # exports
      \/ canvas' # canvas
      \/ downloads' # downloads
      \/ ctxFailures' # ctxFailures
      \/ (/\ toast' # toast
          /\ toast' \in {"success:Image downloaded successfully!",
                         "error:Please upload both profile image and frame first!"}))
     => profileImage' = profileImage]_vars

\* a file was delivered and a context failure happened, and the moved,
\* rotated photo is still as the export captured it
C15_Witness ==
  /\ downloads # <<>>
  /\ ctxFailures > 0
  /\ profileImage # Null
  /\ profileImage = exports[1].photo
  /\ profileImage.x # 0 /\ profileImage.rotation # 0

\* C16: a download click that gets no drawing context shows an error toast,
\* starts no decode and delivers no file
C16_ContextFailureReported ==
  [][ctxFailures' # ctxFailures =>
       /\ toast' \in {"error:Please upload both profile image and frame first!",
                      "error:Please select a valid image file"}
       /\ exports' = exports
       /\ downloads' = downloads]_vars

----------------------------------------------------------------------------
(* Transform lifecycle.                                                    *)

\* C17: when a FileReader completes, the photo becomes that file with
\* offset (0,0), scale 1 and rotation 0, whatever it was; clearAll leaves no
\* photo, and none is present as long as its toast is the last one
C17_UploadDefaultsClearDestroys ==
  /\ [][\A i \in DOMAIN readers :
          ~readers[i].done /\ readers'[i].done =>
            profileImage' = [src |-> readers[i].src, x |-> 0, y |-> 0,
                             scale |-> FromInt(1), rotation |-> 0]]_vars
  /\ [][clearAll => profileImage' = Null]_vars
  /\ [](toast = "success:All images cleared!" => profileImage = Null)

\* a second upload has completed, without a clear, after a photo with a
\* non-zero offset had been grabbed: the photo shown has the defaults
C17_Witness ==
  /\ Len(readers) = 2 /\ readers[1].done /\ readers[2].done
  /\ frameImage = "/frames/DP.png"
  /\ dragState.startImageX # 0
  /\ profileImage # Null
  /\ profileImage.x = 0 /\ profileImage.y = 0
  /\ profileImage.scale = FromInt(1) /\ profileImage.rotation = 0

----------------------------------------------------------------------------
(* Drag gestures.                                                          *)

\* C18: a photo drag or a control-panel drag goes from active to idle only
\* in a step that releases the pointer
C18_DragEndsOnlyOnRelease ==
  [][(\/ dragState.isDragging /\ ~dragState'.isDragging
      \/ isDraggingControls /\ ~isDraggingControls')
     => pointerDown /\ ~pointerDown']_vars

----------------------------------------------------------------------------
(* Determinism of the mapping.                                             *)

\* the values an export's mapping read: transform, rendered frame size,
\* frame natural size and photo base size
MapInputs(m) ==
  [x |-> m.photo.x, y |-> m.photo.y, scale |-> m.photo.scale,
   rotation |-> m.photo.rotation,
   displayedFrameWidth |-> m.displayedFrameWidth,
   displayedFrameHeight |-> m.displayedFrameHeight,
   frameNat |-> m.frameNat, base |-> m.base]

\* the layers of the file that export i delivered
LayersBy(i) == {downloads[k].href.layers : k \in DownloadsBy(i)}

RelX(p) == p[1] - layout.cw \div 2
RelY(p) == p[2] - layout.ch \div 2

\* C20: the photo drag is idle -> dragging -> idle.  A press starts a drag
\* only with a photo and records the pointer position and the photo's
\* offset; the gesture becomes active in no other step; going idle keeps the
\* recorded values; apart from an upload that completes, the offset changes
\* only while dragging, to recorded offset + (pointer - recorded pointer);
\* a move while idle or without a photo changes nothing
C20_DragStateMachine ==
  /\ [][~pointerDown /\ pointerDown' =>
          IF profileImage = Null THEN dragState' = dragState
          ELSE \E p \in Points :
                 dragState' = [isDragging |-> TRUE,
                               startX |-> RelX(p), startY |-> RelY(p),
                               startImageX |-> profileImage.x,
                               startImageY |-> profileImage.y]]_vars
  /\ [][~dragState.isDragging /\ dragState'.isDragging =>
          ~pointerDown /\ pointerDown' /\ profileImage # Null]_vars
  /\ [][dragState.isDragging /\ ~dragState'.isDragging =>
          dragState' = [dragState EXCEPT !.isDragging = FALSE]]_vars
  /\ [][(/\ profileImage # Null /\ profileImage' # Null
         /\ readers' = readers
         /\ (profileImage'.x # profileImage.x \/ profileImage'.y # profileImage.y))
        => /\ dragState.isDragging
           /\ \E p \in Points :
                /\ profileImage'.x = dragState.startImageX + (RelX(p) - dragState.startX)
                /\ profileImage'.y = dragState.startImageY + (RelY(p) - dragState.startY)
           /\ profileImage' = [profileImage EXCEPT !.x = profileImage'.x,
                                                   !.y = profileImage'.y]]_vars
  /\ [][\A p \in Points :
          handleMouseMove(p, MaxOffset) /\ (~dragState.isDragging \/ profileImage = Null)
            => profileImage' = profileImage]_vars

\* a drag from (150,150) to (180,130) has finished by a release: the photo
\* sits at the recorded offset (0,0) plus (30,-20)
C20_Witness ==
  /\ profileImage # Null
  /\ ~dragState.isDragging /\ ~pointerDown
  /\ dragState.startImageX = 0 /\ dragState.startImageY = 0
  /\ profileImage.x = 30 /\ profileImage.y = -20

----------------------------------------------------------------------------
(* Transform mutators.                                                     *)

\* C21: zoom changes only scale, the rotate button and the slider only
\* rotation, a drag move only the offset; apart from an upload that
\* completes and clear, a step changes at most one of offset, scale and
\* rotation and never the source, and never makes a photo appear
C21_MutatorsOwnField ==
  /\ [][zoomRun'.len = zoomRun.len + 1 =>
          profileImage' = [profileImage EXCEPT !.scale = profileImage'.scale]]_vars
  /\ [][handleRotate(MaxRotation) \/ (\E str \in SliderStrings : handlePreciseRotate(str)) =>
          profileImage' = [profileImage EXCEPT !.rotation = profileImage'.rotation]]_vars
  /\ [][\A p \in Points :
          handleMouseMove(p, MaxOffset) /\ profileImage # Null =>
            profileImage' = [profileImage EXCEPT !.x = profileImage'.x,
                                                 !.y = profileImage'.y]]_vars
  /\ [][profileImage # Null /\ profileImage' # Null /\ readers' = readers =>
          /\ profileImage'.src = profileImage.src
          /\ \/ profileImage' = [profileImage EXCEPT !.scale = profileImage'.scale]
             \/ profileImage' = [profileImage EXCEPT !.rotation = profileImage'.rotation]
             \/ profileImage' = [profileImage EXCEPT !.x = profileImage'.x,
                                                     !.y = profileImage'.y]]_vars
  /\ [][profileImage = Null /\ readers' = readers => profileImage' = Null]_vars

\* the photo has been moved, zoomed, and rotated by the button and by the
\* slider, and is still the uploaded file
C21_Witness ==
  /\ profileImage # Null
  /\ profileImage.src = "a.png"
  /\ profileImage.x = 30 /\ profileImage.y = -20
  /\ profileImage.scale # FromInt(1)
  /\ profileImage.rotation = 135

----------------------------------------------------------------------------
(* Exports and concurrent events.                                          *)

\* C22: every mapping that was computed used the transform, the rendered
\* frame size and the rendered photo base size of the state in which its
\* export was triggered
C22_SingleStateInputs ==
  \A i \in DOMAIN exports :
    exports[i].map # Null =>
      /\ exports[i].map.photo = exports[i].photo
      /\ exports[i].map.displayedFrameWidth = exports[i].displayedFrameWidth
      /\ exports[i].map.displayedFrameHeight = exports[i].displayedFrameHeight
      /\ exports[i].map.base = exports[i].triggerBase
      /\ exports[i].map.out =
           MapToOutput(exports[i].photo, exports[i].displayedFrameWidth,
                       exports[i].displayedFrameHeight, NaturalSize(exports[i].frame),
                       exports[i].triggerBase.w, exports[i].triggerBase.h)

\* the files whose read was started after the last clear and has completed
LoadedSinceClear == {readers[i].src : i \in {j \in DOMAIN readers :
                                              readers[j].done /\ ~readers[j].beforeClear}}

\* C23: a photo that is shown comes from a read started after the last
\* clear; and once two reads started without a clear in between have both
\* completed, the photo shown is the file selected last
C23_ClearWinsOverPendingReads ==
  /\ profileImage # Null => profileImage.src \in LoadedSinceClear
  /\ (/\ Len(readers) = 2
      /\ \A i \in DOMAIN readers : readers[i].done /\ ~readers[i].beforeClear)
     => profileImage # Null /\ profileImage.src = readers[2].src

\* C24: no export delivers more than one file, and every export that was
\* started leads to exactly one download or to an error toast
C24_ExportTerminates ==
  /\ [](\A i \in DOMAIN exports : Cardinality(DownloadsBy(i)) <= 1)
  /\ \A i \in 1..LiveExports :
       (i \in DOMAIN exports) ~>
         \/ Cardinality(DownloadsBy(i)) = 1
         \/ toast \in {"error:Please upload both profile image and frame first!",
                       "error:Please select a valid image file"}

====
